---- MODULE Spec2Model ----
(***************************************************************************)
(* The SUP1 signing gateway of szabgab/signway: the canonicalizer of       *)
(* src/signing/signing_functions.rs and the handler Server::route_gateway  *)
(* of src/route_gateway.rs.                                                *)
(*                                                                         *)
(* Strings are sequences of bytes (0..255).  An Option is a sequence of    *)
(* length 0 (None) or 1 (Some).                                            *)
(***************************************************************************)
EXTENDS Integers, Sequences, FiniteSets, TLC

VARIABLES
    pc,                 \* position of the handler: S0..S4, done, panicked
    inbound,            \* the request as it arrived (never changed)
    req,                \* the handler's `req`, rewritten in place
    to_sign,            \* the handler's `to_sign` (SignRequest)
    info,               \* the handler's `info` (SignatureInfo)
    secret,             \* Option: the secret the store returned
    actual_signature,   \* Option: the signature recomputed by the handler
    resp,               \* Option: the response returned to the caller
    reason,             \* which return statement produced resp
    sent,               \* the requests handed to the outbound client
    upstream,           \* Option: what the outbound client returned
    now,                \* the wall clock
    orig,               \* the request the signer signed (declared signature)
    url,                \* canonicalizer harness: the Url under test
    url0,               \* harness: the Url first given
    canon0,             \* harness: Option, first canonical string computed
    canon               \* harness: Option, latest canonical string computed

vars == <<pc, inbound, req, to_sign, info, secret, actual_signature, resp,
          reason, sent, upstream, now, orig, url, url0, canon0, canon>>

gatewayVars == <<pc, inbound, req, to_sign, info, secret, actual_signature,
                 resp, reason, sent, upstream, now, orig>>

harnessVars == <<url, url0, canon0, canon>>

None == <<>>

Some(x) == <<x>>

IsSome(o) == Len(o) = 1

\* ---------------------------------------------------------------- bytes

\* Concatenation of a sequence of strings.
RECURSIVE Concat(_)
Concat(ss) == IF ss = <<>> THEN <<>> ELSE Head(ss) \o Concat(Tail(ss))

\* slice::join: the strings of ss separated by sep.
RECURSIVE Join(_, _)
Join(ss, sep) ==
    IF ss = <<>> THEN <<>>
    ELSE IF Len(ss) = 1 THEN ss[1]
    ELSE ss[1] \o sep \o Join(Tail(ss), sep)

\* Ord for String: byte-wise lexicographic, a proper prefix is smaller.
RECURSIVE StrLess(_, _)
StrLess(a, b) ==
    IF b = <<>> THEN FALSE
    ELSE IF a = <<>> THEN TRUE
    ELSE IF a[1] # b[1] THEN a[1] < b[1]
    ELSE StrLess(Tail(a), Tail(b))

\* Vec<String>::sort, as an insertion sort.
RECURSIVE InsertStr(_, _)
InsertStr(s, sorted) ==
    IF sorted = <<>> THEN <<s>>
    ELSE IF StrLess(sorted[1], s) THEN <<sorted[1]>> \o InsertStr(s, Tail(sorted))
    ELSE <<s>> \o sorted

RECURSIVE SortStrs(_)
SortStrs(ss) == IF ss = <<>> THEN <<>> ELSE InsertStr(Head(ss), SortStrs(Tail(ss)))

\* Ord for (String, String): by key, then by value.
PairLess(p, q) == StrLess(p[1], q[1]) \/ (p[1] = q[1] /\ StrLess(p[2], q[2]))

RECURSIVE InsertPair(_, _)
InsertPair(p, sorted) ==
    IF sorted = <<>> THEN <<p>>
    ELSE IF PairLess(sorted[1], p) THEN <<sorted[1]>> \o InsertPair(p, Tail(sorted))
    ELSE <<p>> \o sorted

RECURSIVE SortedPairs(_)
SortedPairs(ps) == IF ps = <<>> THEN <<>> ELSE InsertPair(Head(ps), SortedPairs(Tail(ps)))

SortPairs_Unsorted(ps) == ps

\* params.sort()
SortPairs(ps) == SortedPairs(ps)

\* str::to_lowercase on ASCII.
ToLower(s) == [i \in 1..Len(s) |-> IF s[i] >= 65 /\ s[i] <= 90 THEN s[i] + 32 ELSE s[i]]

IsSpace(b) == b \in {9, 10, 11, 12, 13, 32}

RECURSIVE TrimStart(_)
TrimStart(s) == IF s # <<>> /\ IsSpace(s[1]) THEN TrimStart(Tail(s)) ELSE s

RECURSIVE TrimEnd(_)
TrimEnd(s) ==
    IF s # <<>> /\ IsSpace(s[Len(s)]) THEN TrimEnd(SubSeq(s, 1, Len(s) - 1)) ELSE s

\* str::trim
Trim(s) == TrimEnd(TrimStart(s))

\* ------------------------------------------------- percent encoding

IsHexDigit(b) == (b >= 48 /\ b <= 57) \/ (b >= 65 /\ b <= 70) \/ (b >= 97 /\ b <= 102)

HexVal(b) == IF b <= 57 THEN b - 48 ELSE IF b <= 70 THEN b - 55 ELSE b - 87

HexUpper(n) == IF n < 10 THEN 48 + n ELSE 55 + n

\* percent_encoding::percent_decode_str: "%XY" with two hex digits is one
\* byte, every other byte (a lone '%' too) stands for itself.
RECURSIVE percent_decode_str(_)
percent_decode_str(s) ==
    IF s = <<>> THEN <<>>
    ELSE IF s[1] = 37 /\ Len(s) >= 3 /\ IsHexDigit(s[2]) /\ IsHexDigit(s[3])
         THEN <<16 * HexVal(s[2]) + HexVal(s[3])>> \o percent_decode_str(SubSeq(s, 4, Len(s)))
    ELSE <<s[1]>> \o percent_decode_str(Tail(s))

IsCont(b) == b >= 128 /\ b <= 191

Utf8Width(b) ==
    IF b < 128 THEN 1
    ELSE IF b >= 194 /\ b <= 223 THEN 2
    ELSE IF b >= 224 /\ b <= 239 THEN 3
    ELSE IF b >= 240 /\ b <= 244 THEN 4
    ELSE 0

SecondOk(b1, b2) ==
    IF b1 = 224 THEN b2 >= 160 /\ b2 <= 191
    ELSE IF b1 = 237 THEN b2 >= 128 /\ b2 <= 159
    ELSE IF b1 = 240 THEN b2 >= 144 /\ b2 <= 191
    ELSE IF b1 = 244 THEN b2 >= 128 /\ b2 <= 143
    ELSE IsCont(b2)

\* The first chunk of s: a valid character (valid, n bytes) or a maximal
\* invalid part (not valid, n bytes), as String::from_utf8_lossy cuts it.
Utf8Chunk(s) ==
    LET w == Utf8Width(s[1]) IN
    IF w = 1 THEN [valid |-> TRUE, n |-> 1]
    ELSE IF w = 0 \/ Len(s) < 2 \/ ~SecondOk(s[1], s[2]) THEN [valid |-> FALSE, n |-> 1]
    ELSE IF w = 2 THEN [valid |-> TRUE, n |-> 2]
    ELSE IF Len(s) < 3 \/ ~IsCont(s[3]) THEN [valid |-> FALSE, n |-> 2]
    ELSE IF w = 3 THEN [valid |-> TRUE, n |-> 3]
    ELSE IF Len(s) < 4 \/ ~IsCont(s[4]) THEN [valid |-> FALSE, n |-> 3]
    ELSE [valid |-> TRUE, n |-> 4]

\* PercentDecode::decode_utf8_lossy: invalid parts become U+FFFD (EF BF BD).
RECURSIVE decode_utf8_lossy(_)
decode_utf8_lossy(s) ==
    IF s = <<>> THEN <<>>
    ELSE LET c == Utf8Chunk(s) IN
         (IF c.valid THEN SubSeq(s, 1, c.n) ELSE <<239, 191, 189>>)
             \o decode_utf8_lossy(SubSeq(s, c.n + 1, Len(s)))

CONTROLS == (0..31) \cup {127}

FRAGMENT ==
    CONTROLS \cup {58, 63, 35, 91, 93, 64, 33, 36, 38, 39, 40, 41, 42, 43, 44, 59, 61}
             \cup {34, 32, 60, 62, 37, 123, 125, 124, 92, 94, 96}

FRAGMENT_SLASH == FRAGMENT \cup {47}

PercentEncodeByte(b) == <<37, HexUpper(b \div 16), HexUpper(b % 16)>>

\* percent_encoding::utf8_percent_encode: a byte that is not ASCII or is in
\* the set becomes %XY (upper case), every other byte stands for itself.
RECURSIVE utf8_percent_encode(_, _)
utf8_percent_encode(s, set) ==
    IF s = <<>> THEN <<>>
    ELSE (IF s[1] >= 128 \/ s[1] \in set THEN PercentEncodeByte(s[1]) ELSE <<s[1]>>)
             \o utf8_percent_encode(Tail(s), set)

\* ---------------------------------------------------- canonicalizer

canonical_uri_string_NoDecode(uri) == utf8_percent_encode(uri.path, FRAGMENT)

canonical_uri_string(uri) ==
    LET decoded == decode_utf8_lossy(percent_decode_str(uri.path))
    IN  utf8_percent_encode(decoded, FRAGMENT)

canonical_query_string(uri) ==
    LET params == SortPairs(uri.query_pairs)
        strs   == [i \in 1..Len(params) |->
                      utf8_percent_encode(params[i][1], FRAGMENT_SLASH) \o <<61>>
                          \o utf8_percent_encode(params[i][2], FRAGMENT_SLASH)]
    IN  Join(strs, <<38>>)

\* HeaderValue::to_str: Ok only for visible ASCII (and tab).
to_str_ok(value) == \A i \in 1..Len(value) : value[i] = 9 \/ (value[i] >= 32 /\ value[i] <= 126)

\* value.to_str().unwrap() panics for some header of the map.
canonical_header_string_panics(headers) ==
    \E i \in 1..Len(headers) : ~to_str_ok(headers[i][2])

canonical_header_string(headers) ==
    LET keyvalues == [i \in 1..Len(headers) |->
                         ToLower(headers[i][1]) \o <<58>> \o Trim(headers[i][2])]
    IN  Join(SortStrs(keyvalues), <<10>>)

signed_header_string(headers) ==
    LET keys == [i \in 1..Len(headers) |-> ToLower(headers[i][1])]
    IN  Join(SortStrs(keys), <<59>>)

canonical_request_NoBody(method, u, headers, body) ==
    Concat(<<method, <<10>>, canonical_uri_string(u), <<10>>,
             canonical_query_string(u), <<10>>,
             canonical_header_string(headers), <<10, 10>>,
             signed_header_string(headers), <<10>>>>)

canonical_request(method, u, headers, body) ==
    Concat(<<method, <<10>>, canonical_uri_string(u), <<10>>,
             canonical_query_string(u), <<10>>,
             canonical_header_string(headers), <<10, 10>>,
             signed_header_string(headers), <<10>>, body>>)

\* ----------------------------------------------------------- signer

\* "SUP1-HMAC-SHA256"
ALGORITHM == <<83, 85, 80, 49, 45, 72, 77, 65, 67, 45, 83, 72, 65, 50, 53, 54>>

\* SHA-256 and HMAC-SHA256, hex encoded, taken as injective: the digest is
\* the tagged input itself.
Sha256Hex(msg) == <<"sha256", msg>>

HmacSha256(key, msg) == <<"hmac", key, msg>>

\* A datetime is [day, sec]; SHORT_DATE formats the day, LONG_DATETIME the
\* day and the time of day.  Both are injective, kept as tuples.
FormatShort(datetime) == <<datetime.day>>

FormatLong(datetime) == <<datetime.day, datetime.sec>>

scope_string(datetime) == FormatShort(datetime)

\* The four lines "{ALGORITHM}\n{timestamp}\n{scope}\n{hash}", kept as a
\* tuple of lines (no line holds a line feed).
string_to_sign(datetime, canonical_req) ==
    <<ALGORITHM, FormatLong(datetime), scope_string(datetime), Sha256Hex(canonical_req)>>

signing_key(datetime, secret_key) ==
    HmacSha256(ALGORITHM \o secret_key, FormatShort(datetime))

BodyOrEmpty(body) == IF IsSome(body) THEN body[1] ELSE <<>>

\* UrlSigner::get_signature panics inside canonical_header_string.
get_signature_panics(r) == canonical_header_string_panics(r.headers)

\* UrlSigner::get_signature: hex(HMAC(signing_key, string_to_sign)).
get_signature(secret_key, r) ==
    HmacSha256(signing_key(r.datetime, secret_key),
               string_to_sign(r.datetime,
                   canonical_request(r.method, r.proxy_url, r.headers, BodyOrEmpty(r.body))))

\* --------------------------------------------------- request parser

HeaderGet(headers, name) ==
    LET idx == {i \in 1..Len(headers) : headers[i][1] = name}
    IN  IF idx = {} THEN None
        ELSE Some(headers[CHOOSE i \in idx : \A j \in idx : i <= j][2])

RECURSIVE HeaderRemove(_, _)
HeaderRemove(headers, name) ==
    IF headers = <<>> THEN <<>>
    ELSE IF headers[1][1] = name THEN HeaderRemove(Tail(headers), name)
    ELSE <<headers[1]>> \o HeaderRemove(Tail(headers), name)

\* HeaderMap::insert: the value replaces every value the name had.
HeaderInsert(headers, name, value) == Append(HeaderRemove(headers, name), <<name, value>>)

\* The inbound headers named by X-Sup-SignedHeaders.
RECURSIVE SignedSubset(_, _)
SignedSubset(headers, names) ==
    IF headers = <<>> THEN <<>>
    ELSE IF \E i \in 1..Len(names) : names[i] = headers[1][1]
         THEN <<headers[1]>> \o SignedSubset(Tail(headers), names)
    ELSE SignedSubset(Tail(headers), names)

\* "true"
TrueStr == <<116, 114, 117, 101>>

\* "false"
FalseStr == <<102, 97, 108, 115, 101>>

EnvelopeKeys ==
    {"algorithm", "credential", "date", "expires", "proxy", "signed_headers",
     "body", "signature"}

\* SignRequest::from_req: the envelope of the inbound query, every
\* parameter an Option (None: missing or not parseable).
from_req(r) ==
    LET e == r.envelope IN
    IF \E k \in EnvelopeKeys : ~IsSome(e[k]) THEN [ok |-> FALSE]
    ELSE [ok      |-> TRUE,
          to_sign |-> [method    |-> r.method,
                       proxy_url |-> e.proxy[1],
                       headers   |-> SignedSubset(r.headers, e.signed_headers[1]),
                       body      |-> None,
                       datetime  |-> e.date[1],
                       expires   |-> e.expires[1],
                       id        |-> e.credential[1]],
          info    |-> [id             |-> e.credential[1],
                       signature      |-> e.signature[1],
                       include_body   |-> e.body[1] = TrueStr,
                       proxy_url      |-> e.proxy[1],
                       datetime       |-> e.date[1],
                       signed_headers |-> e.signed_headers[1]]]

\* ---------------------------------------------------------- gateway

bad_request_401 == [status |-> 401, headers |-> <<>>, body |-> <<>>]

bad_request == [status |-> 400, headers |-> <<>>, body |-> <<>>]

internal_server(e) == [status |-> 500, headers |-> <<>>, body |-> <<>>]

bad_gateway_Empty(e) == [status |-> 502, headers |-> <<>>, body |-> <<>>]

\* string_to_body(&e.to_string())
bad_gateway(e) == [status |-> 502, headers |-> <<>>, body |-> e]

IsDigit(b) == b >= 48 /\ b <= 57

RECURSIVE DigitsValue(_)
DigitsValue(s) ==
    IF s = <<>> THEN 0 ELSE 10 * DigitsValue(SubSeq(s, 1, Len(s) - 1)) + (s[Len(s)] - 48)

\* usize::from_str: digits, after an optional '+'.
usize_from_str(s) ==
    LET d == IF s # <<>> /\ s[1] = 43 THEN Tail(s) ELSE s IN
    IF d # <<>> /\ \A i \in 1..Len(d) : IsDigit(d[i]) THEN Some(DigitsValue(d)) ELSE None

\* "content-length"
ContentLengthName == <<99, 111, 110, 116, 101, 110, 116, 45, 108, 101, 110, 103, 116, 104>>

\* "host"
HostName == <<104, 111, 115, 116>>

parse_content_length(r) ==
    LET h == HeaderGet(r.headers, ContentLengthName) IN
    IF ~IsSome(h) THEN None
    ELSE IF ~to_str_ok(h[1]) THEN None
    ELSE usize_from_str(h[1])

\* body_to_string(body, n): the first n bytes of the stream.
body_to_string(body, n) == SubSeq(body, 1, n)

ReattachBody_Inbound(body, buffered) == body

\* Request::from_parts(parts, string_to_body(&body))
ReattachBody(body, buffered) == buffered

SignatureMismatch_Never(declared, actual) == FALSE

SignatureMismatch_Expiry(declared, actual) ==
    declared # actual \/ now - to_sign.datetime.day > to_sign.expires

\* declared_signature != &actual_signature
SignatureMismatch(declared, actual) == declared # actual

\* str form of a Url: https://host[:port]path[?query].  The query pairs of
\* the proxy URLs used here hold unreserved bytes only.
UrlAsStr(u) ==
    LET q == [i \in 1..Len(u.query_pairs) |->
                 u.query_pairs[i][1] \o <<61>> \o u.query_pairs[i][2]]
    IN  Concat(<<<<104, 116, 116, 112, 115, 58, 47, 47>>,
                 BodyOrEmpty(u.host),
                 IF IsSome(u.port) THEN <<58>> \o u.port[1] ELSE <<>>,
                 u.path,
                 IF q = <<>> THEN <<>> ELSE <<63>> \o Join(q, <<38>>)>>)

\* Uri::from_str(to_sign.proxy_url.as_str())
UriFromStr(u) == IF u.uri_ok THEN Some(UrlAsStr(u)) ELSE None

Rewrite_KeepHost(r, proxy_uri, host) ==
    [r EXCEPT !.uri = proxy_uri,
              !.headers = IF IsSome(HeaderGet(r.headers, HostName)) THEN r.headers
                          ELSE Append(r.headers, <<HostName, host>>)]

\* *req.uri_mut() = proxy_uri; req.headers_mut().insert("host", host)
Rewrite(r, proxy_uri, host) ==
    [r EXCEPT !.uri = proxy_uri, !.headers = HeaderInsert(r.headers, HostName, host)]

\* ------------------------------------------------------ the inputs

\* The clock is followed up to MaxNow.
MaxNow == 2

\* "GET", "PUT"
Methods == {<<71, 69, 84>>, <<80, 85, 84>>}

\* "/a%3Ab", "/a%3ab", "/a%3Bb"
PathA == <<47, 97, 37, 51, 65, 98>>

PathALower == <<47, 97, 37, 51, 97, 98>>

PathB == <<47, 97, 37, 51, 66, 98>>

\* k=1&j=2 and j=2&k=1
QueryKJ == << <<<<107>>, <<49>>>>, <<<<106>>, <<50>>>> >>

QueryJK == << <<<<106>>, <<50>>>>, <<<<107>>, <<49>>>> >>

MkUrl(host, port, path, pairs, ok) ==
    [host |-> host, port |-> port, path |-> path, query_pairs |-> pairs, uri_ok |-> ok]

\* https://h:8443/a%3Ab?k=1&j=2, the URL the signer signs
SignedUrl == MkUrl(Some(<<104>>), Some(<<56, 52, 52, 51>>), PathA, QueryKJ, TRUE)

ProxyUrls ==
    {SignedUrl,
     [SignedUrl EXCEPT !.query_pairs = QueryJK],
     [SignedUrl EXCEPT !.path = PathALower],
     [SignedUrl EXCEPT !.path = PathB],
     [SignedUrl EXCEPT !.host = None, !.port = None],
     [SignedUrl EXCEPT !.uri_ok = FALSE]}

\* "x-h", "x-other"
XH == <<120, 45, 104>>

XOther == <<120, 45, 111, 116, 104, 101, 114>>

\* " v", "<tab>v", " w", and a value that is no visible ASCII
XHValues == {<<32, 118>>, <<9, 118>>, <<32, 119>>, <<255, 118>>}

\* "evil"
InboundHosts == {None, Some(<<101, 118, 105, 108>>)}

\* absent, "2", "x"
ContentLengths == {None, Some(<<50>>), Some(<<120>>)}

\* "hi", "ho", "hi!", "h"
Bodies == {<<104, 105>>, <<104, 111>>, <<104, 105, 33>>, <<104>>}

SignedHeaderLists == {<<>>, <<XH>>}

\* "k1" is known to the store, "k2" is not
K1 == <<107, 49>>

K2 == <<107, 50>>

Ids == {K1, K2}

\* "shh"
Shh == <<115, 104, 104>>

\* secret_getter.get_secret(id), when the store answers
SecretStore(id) == IF id = K1 THEN Some(Shh) ELSE None

SignDate == [day |-> 1, sec |-> 0]

ExpiresValues == {0, 1}

\* What the signer signed: a GET with one signed header and no body, or a
\* PUT with a signed body.
SignedRequests ==
    {[method |-> <<71, 69, 84>>, proxy_url |-> SignedUrl,
      headers |-> << <<XH, <<32, 118>>>> >>, body |-> None,
      datetime |-> SignDate, expires |-> 0, id |-> K1],
     [method |-> <<80, 85, 84>>, proxy_url |-> SignedUrl,
      headers |-> <<>>, body |-> Some(<<104, 105>>),
      datetime |-> SignDate, expires |-> 0, id |-> K1]}

\* A signature no signer produced.
Forged == HmacSha256(<<>>, <<>>)

\* "ok", "err"
UpstreamResponses ==
    {[status |-> 200, headers |-> << <<XOther, <<117, 112>>>> >>, body |-> <<111, 107>>],
     [status |-> 502, headers |-> <<>>, body |-> <<>>]}

TransportErrors == {<<101, 114, 114>>}

MkInbound(method, host, xh, cl, body, env) ==
    [method   |-> method,
     uri      |-> <<47>>,
     headers  |-> (IF IsSome(host) THEN << <<HostName, host[1]>> >> ELSE <<>>)
                  \o << <<XH, xh>> >>
                  \o (IF IsSome(cl) THEN << <<ContentLengthName, cl[1]>> >> ELSE <<>>)
                  \o << <<XOther, <<111>>>> >>,
     body     |-> body,
     envelope |-> env]

MkEnvelope(id, expires, proxy, signed, bodyflag, sig) ==
    [algorithm      |-> Some(ALGORITHM),
     credential     |-> Some(id),
     date           |-> Some(SignDate),
     expires        |-> Some(expires),
     proxy          |-> Some(proxy),
     signed_headers |-> Some(signed),
     body           |-> Some(bodyflag),
     signature      |-> Some(sig)]

\* The requests that may arrive with a complete envelope: every combination
\* of the inputs the signature covers (principal k1, X-Sup-Expires 0), and
\* every combination of the inputs it does not cover.
CompleteRequests(sig) ==
    {MkInbound(m, h, xh, cl, b, MkEnvelope(K1, 0, pu, sh, bf, sig)) :
        m \in Methods, h \in InboundHosts, xh \in XHValues, cl \in ContentLengths,
        b \in Bodies, pu \in ProxyUrls, sh \in SignedHeaderLists,
        bf \in {TrueStr, FalseStr}}
    \cup
    {MkInbound(<<71, 69, 84>>, h, <<32, 118>>, Some(<<50>>), <<104, 105>>,
               MkEnvelope(id, ex, pu, <<XH>>, bf, sig)) :
        h \in InboundHosts, id \in Ids, ex \in ExpiresValues, pu \in ProxyUrls,
        bf \in {TrueStr, FalseStr}}

\* The signed GET with one envelope parameter missing.
MalformedRequests(sig) ==
    {MkInbound(<<71, 69, 84>>, None, <<32, 118>>, None, <<104, 105>>,
               [MkEnvelope(K1, 0, SignedUrl, <<XH>>, FalseStr, sig) EXCEPT ![k] = None]) :
        k \in EnvelopeKeys}

InboundRequests(o) ==
    LET sig == IF IsSome(o) THEN get_signature(Shh, o[1]) ELSE Forged
    IN  CompleteRequests(sig) \cup MalformedRequests(sig)

NoRequest == [method |-> <<>>, uri |-> <<>>, headers |-> <<>>, body |-> <<>>]

NoUrl == MkUrl(None, None, <<>>, <<>>, FALSE)

NoSignRequest ==
    [method |-> <<>>, proxy_url |-> NoUrl, headers |-> <<>>, body |-> None,
     datetime |-> [day |-> 0, sec |-> 0], expires |-> 0, id |-> <<>>]

NoInfo ==
    [id |-> <<>>, signature |-> Forged, include_body |-> FALSE, proxy_url |-> NoUrl,
     datetime |-> [day |-> 0, sec |-> 0], signed_headers |-> <<>>]

NoResponse == [status |-> 0, headers |-> <<>>, body |-> <<>>]

HarnessIdle == url = NoUrl /\ url0 = NoUrl /\ canon0 = None /\ canon = None

Init ==
    /\ orig \in {None} \cup {Some(o) : o \in SignedRequests}
    /\ inbound \in InboundRequests(orig)
    /\ req = [method |-> inbound.method, uri |-> inbound.uri,
              headers |-> inbound.headers, body |-> inbound.body]
    /\ pc = "S0"
    /\ to_sign = NoSignRequest
    /\ info = NoInfo
    /\ secret = None
    /\ actual_signature = None
    /\ resp = None
    /\ reason = "none"
    /\ sent = <<>>
    /\ upstream = None
    /\ now = 0
    /\ HarnessIdle

\* return Ok(response)
Return(r, why) ==
    /\ pc' = "done"
    /\ resp' = Some(r)
    /\ reason' = why

\* S0: SignRequest::from_req(&req)
ParseEnvelope ==
    /\ pc = "S0"
    /\ LET p == from_req(inbound) IN
       IF p.ok
       THEN /\ to_sign' = p.to_sign
            /\ info' = p.info
            /\ pc' = "S1"
            /\ UNCHANGED <<resp, reason>>
       ELSE /\ Return(bad_request, "MalformedEnvelope")
            /\ UNCHANGED <<to_sign, info>>
    /\ UNCHANGED <<inbound, req, secret, actual_signature, sent, upstream, now, orig, harnessVars>>

\* S1: self.secret_getter.get_secret(&info.id).await, which may fail
FetchSecret ==
    /\ pc = "S1"
    /\ \E storeFails \in BOOLEAN :
         IF storeFails
         THEN /\ Return(internal_server(<<101, 114, 114>>), "SecretStoreFailure")
              /\ UNCHANGED secret
         ELSE IF ~IsSome(SecretStore(info.id))
         THEN /\ Return(bad_request, "UnknownPrincipal")
              /\ UNCHANGED secret
         ELSE /\ secret' = SecretStore(info.id)
              /\ pc' = "S2"
              /\ UNCHANGED <<resp, reason>>
    /\ UNCHANGED <<inbound, req, to_sign, info, actual_signature, sent, upstream, now, orig, harnessVars>>

\* S2: if info.include_body { ... }.  Reading a body shorter than the
\* declared length does not return before the stream fails.
BufferBody ==
    /\ pc = "S2"
    /\ IF info.include_body
       THEN LET content_length == parse_content_length(req) IN
            IF ~IsSome(content_length)
            THEN /\ Return(bad_request, "BadBody")
                 /\ UNCHANGED <<req, to_sign>>
            ELSE \E readFails \in BOOLEAN :
                   IF readFails
                   THEN /\ Return(bad_request, "BadBody")
                        /\ UNCHANGED <<req, to_sign>>
                   ELSE /\ Len(req.body) >= content_length[1]
                        /\ LET body == body_to_string(req.body, content_length[1]) IN
                           /\ to_sign' = [to_sign EXCEPT !.body = Some(body)]
                           /\ req' = [req EXCEPT !.body = ReattachBody(req.body, body)]
                        /\ pc' = "S3"
                        /\ UNCHANGED <<resp, reason>>
       ELSE /\ pc' = "S3"
            /\ UNCHANGED <<req, to_sign, resp, reason>>
    /\ UNCHANGED <<inbound, info, secret, actual_signature, sent, upstream, now, orig, harnessVars>>

\* S3: rewrite the request, recompute the signature, compare
VerifySignature ==
    /\ pc = "S3"
    /\ IF ~IsSome(to_sign.proxy_url.host) \/ ~IsSome(UriFromStr(to_sign.proxy_url))
       THEN /\ Return(bad_request, "BadProxyUrl")
            /\ UNCHANGED <<req, actual_signature>>
       ELSE /\ req' = Rewrite(req, UriFromStr(to_sign.proxy_url)[1], to_sign.proxy_url.host[1])
            /\ \E signerFails \in BOOLEAN :
                 IF signerFails
                 THEN /\ Return(internal_server(<<101, 114, 114>>), "SigningComputationFailure")
                      /\ UNCHANGED actual_signature
                 ELSE IF get_signature_panics(to_sign)
                 THEN /\ pc' = "panicked"
                      /\ UNCHANGED <<actual_signature, resp, reason>>
                 ELSE LET actual == get_signature(secret[1], to_sign) IN
                      /\ actual_signature' = Some(actual)
                      /\ IF SignatureMismatch(info.signature, actual)
                         THEN Return(bad_request, "BadSignature")
                         ELSE /\ pc' = "S4"
                              /\ UNCHANGED <<resp, reason>>
    /\ UNCHANGED <<inbound, to_sign, info, secret, sent, upstream, now, orig, harnessVars>>

\* S4: client.request(req).await
Dispatch ==
    /\ pc = "S4"
    /\ sent' = Append(sent, req)
    /\ \/ \E a \in UpstreamResponses :
            /\ upstream' = Some([ok |-> TRUE, response |-> a, error |-> <<>>])
            /\ Return(a, "UpstreamResponse")
       \/ \E e \in TransportErrors :
            /\ upstream' = Some([ok |-> FALSE, response |-> NoResponse, error |-> e])
            /\ Return(bad_gateway(e), "UpstreamTransportFailure")
    /\ UNCHANGED <<inbound, req, to_sign, info, secret, actual_signature, now, orig, harnessVars>>

\* Time passes while the request is handled.
Tick ==
    /\ pc \in {"S0", "S1", "S2", "S3", "S4"}
    /\ now < MaxNow
    /\ now' = now + 1
    /\ UNCHANGED <<pc, inbound, req, to_sign, info, secret, actual_signature, resp,
                   reason, sent, upstream, orig, harnessVars>>

Next ==
    \/ ParseEnvelope
    \/ FetchSecret
    \/ BufferBody
    \/ VerifySignature
    \/ Dispatch
    \/ Tick

Spec == Init /\ [][Next]_vars

\* ------------------------------------------------- gateway properties

Rejections400 ==
    {"MalformedEnvelope", "UnknownPrincipal", "BadBody", "BadProxyUrl", "BadSignature"}

Rejections500 == {"SecretStoreFailure", "SigningComputationFailure"}

Verified == IsSome(actual_signature) /\ actual_signature[1] = info.signature

\* C1: the outbound client is invoked at most once, and only after the
\* envelope parsed, the store returned a secret for the principal and the
\* signature recomputed over the SignRequest equals the declared one; when
\* the two signatures differ the response is 400 and nothing was sent.
C1_VerifyBeforeDispatch ==
    /\ Len(sent) <= 1
    /\ (pc = "S4" \/ sent # <<>>) =>
          /\ from_req(inbound).ok
          /\ IsSome(secret)
          /\ secret = SecretStore(inbound.envelope.credential[1])
          /\ IsSome(actual_signature)
          /\ actual_signature[1] = get_signature(secret[1], to_sign)
          /\ actual_signature[1] = inbound.envelope.signature[1]
    /\ (IsSome(actual_signature) /\ actual_signature[1] # inbound.envelope.signature[1]) =>
          /\ pc = "done"
          /\ resp[1].status = 400
          /\ sent = <<>>

C1_Dispatched == pc = "done" /\ Len(sent) = 1 /\ Verified

\* C2: every failure path of route_gateway produces a response and never
\* panics; a signed header whose value is no string is rejected.
C2_NeverPanics ==
    /\ pc # "panicked"
    /\ pc = "done" => IsSome(resp)

\* C3: a rejection before dispatch has the status of its error class and an
\* empty body, and the request is not sent upstream: 400 for a malformed
\* envelope, an unknown principal, a bad body, a bad proxy URL and a
\* signature mismatch; 500 for a secret store error and a signing error.
C3_RejectionStatus ==
    pc = "done" =>
        /\ reason \in Rejections400 =>
              resp[1].status = 400 /\ resp[1].body = <<>> /\ sent = <<>>
        /\ reason \in Rejections500 =>
              resp[1].status = 500 /\ resp[1].body = <<>> /\ sent = <<>>
        /\ ~from_req(inbound).ok => reason = "MalformedEnvelope"
        /\ (from_req(inbound).ok /\ ~IsSome(SecretStore(info.id))) =>
              reason \in {"UnknownPrincipal", "SecretStoreFailure"}
        /\ (IsSome(secret) /\ info.include_body /\ ~IsSome(parse_content_length(inbound))) =>
              reason = "BadBody"
        /\ (IsSome(secret) /\ reason # "BadBody"
               /\ (~IsSome(to_sign.proxy_url.host) \/ ~to_sign.proxy_url.uri_ok)) =>
              reason = "BadProxyUrl"
        /\ (IsSome(actual_signature) /\ actual_signature[1] # info.signature) =>
              reason = "BadSignature"

C3_BadProxyUrlRejected ==
    /\ pc = "done"
    /\ reason = "BadProxyUrl"
    /\ IsSome(to_sign.proxy_url.host)
    /\ resp[1].status = 400

\* C4: the gateway answers 502 only after the signature was verified and
\* the dispatch raised a transport error, with the error text as the body;
\* a response of the upstream is returned as it is; every other response
\* of the gateway has an empty body and a status other than 502.
C4_BadGatewayOnlyAfterDispatch ==
    pc = "done" =>
        /\ reason = "UpstreamTransportFailure" =>
              /\ IsSome(upstream) /\ ~upstream[1].ok
              /\ resp[1].status = 502
              /\ resp[1].body = upstream[1].error
              /\ resp[1].body # <<>>
        /\ reason = "UpstreamResponse" =>
              /\ IsSome(upstream) /\ upstream[1].ok
              /\ resp[1] = upstream[1].response
        /\ reason \notin {"UpstreamTransportFailure", "UpstreamResponse"} =>
              /\ resp[1].status # 502
              /\ resp[1].body = <<>>
              /\ upstream = None
        /\ resp[1].status = 502 => Len(sent) = 1 /\ Verified
        /\ IsSome(upstream) <=> Len(sent) = 1

C4_TransportFailure ==
    pc = "done" /\ reason = "UpstreamTransportFailure" /\ resp[1].status = 502

Mutated(a, b) == Len(a) = Len(b) /\ a # b

SignedOrig == orig[1]

TamperedMethod ==
    /\ Mutated(to_sign.method, SignedOrig.method)
    /\ [to_sign EXCEPT !.method = SignedOrig.method] = SignedOrig

TamperedPath ==
    /\ Mutated(to_sign.proxy_url.path, SignedOrig.proxy_url.path)
    /\ [to_sign EXCEPT !.proxy_url.path = SignedOrig.proxy_url.path] = SignedOrig

HeaderValuesMutated(hs, os) ==
    /\ Len(hs) = Len(os)
    /\ \A i \in 1..Len(hs) : hs[i][1] = os[i][1] /\ Len(hs[i][2]) = Len(os[i][2])
    /\ hs # os

TamperedHeader ==
    /\ HeaderValuesMutated(to_sign.headers, SignedOrig.headers)
    /\ [to_sign EXCEPT !.headers = SignedOrig.headers] = SignedOrig

TamperedBody ==
    /\ IsSome(to_sign.body) /\ IsSome(SignedOrig.body)
    /\ Mutated(to_sign.body[1], SignedOrig.body[1])
    /\ [to_sign EXCEPT !.body = SignedOrig.body] = SignedOrig

DecodedPath(u) == decode_utf8_lossy(percent_decode_str(u.path))

\* The mutation changes what the bytes stand for: the decoded path, or the
\* trimmed value of a header.
TamperedPathDecoded ==
    TamperedPath /\ DecodedPath(to_sign.proxy_url) # DecodedPath(SignedOrig.proxy_url)

TamperedHeaderTrimmed ==
    /\ TamperedHeader
    /\ \E i \in 1..Len(to_sign.headers) :
          Trim(to_sign.headers[i][2]) # Trim(SignedOrig.headers[i][2])

NotDispatched ==
    /\ pc # "S4"
    /\ sent = <<>>
    /\ IsSome(actual_signature) =>
          /\ actual_signature[1] # info.signature
          /\ pc = "done" /\ resp[1].status = 400

C8_RewriteToProxy ==
    sent # <<>> =>
        LET s == sent[1]
            declared == inbound.envelope.proxy[1]
        IN  /\ s.uri = UrlAsStr(declared)
            /\ HeaderGet(s.headers, HostName) = declared.host
            /\ Cardinality({i \in 1..Len(s.headers) : s.headers[i][1] = HostName}) = 1
            /\ s.method = inbound.method
            /\ HeaderRemove(s.headers, HostName) = HeaderRemove(inbound.headers, HostName)

C8_InboundHostOverwritten ==
    /\ sent # <<>>
    /\ IsSome(HeaderGet(inbound.headers, HostName))
    /\ HeaderGet(inbound.headers, HostName) # HeaderGet(sent[1].headers, HostName)
    /\ sent[1].uri # inbound.uri

DeclaredLength == parse_content_length(inbound)

\* C9: with include_body the body sent upstream is the buffer of the
\* declared Content-Length that was attached to the SignRequest and that
\* the verified signature covers; without it the signature is computed
\* with an empty body and the inbound body is forwarded as it arrived.
C9_SignedBodyForwarded ==
    /\ (pc # "S0" /\ ~info.include_body) => (req.body = inbound.body /\ to_sign.body = None)
    /\ sent # <<>> =>
          IF info.include_body
          THEN /\ IsSome(to_sign.body)
               /\ sent[1].body = to_sign.body[1]
               /\ IsSome(DeclaredLength)
               /\ Len(sent[1].body) = DeclaredLength[1]
               /\ sent[1].body = SubSeq(inbound.body, 1, DeclaredLength[1])
               /\ info.signature =
                     get_signature(secret[1], [to_sign EXCEPT !.body = Some(sent[1].body)])
          ELSE /\ sent[1].body = inbound.body
               /\ info.signature = get_signature(secret[1], [to_sign EXCEPT !.body = Some(<<>>)])

C9_TruncatedBodyForwarded ==
    /\ sent # <<>>
    /\ info.include_body
    /\ sent[1].body # inbound.body
    /\ sent[1].body = to_sign.body[1]

WithExpires(r, e) == [r EXCEPT !.envelope.expires = Some(e)]

Stale == now - to_sign.datetime.day > to_sign.expires

\* C10: freshness is not enforced: a request whose signature matches goes
\* to the upstream whatever the clock and X-Sup-Expires say, and the
\* SignatureInfo and the signature the handler computes are the same for
\* every value of X-Sup-Expires.
C10_FreshnessNotEnforced ==
    /\ Verified =>
          /\ pc \in {"S4", "done"}
          /\ pc = "done" => (Len(sent) = 1
                               /\ reason \in {"UpstreamResponse", "UpstreamTransportFailure"})
    /\ pc = "S1" =>
          \A e \in ExpiresValues \cup {to_sign.expires + 1} :
              LET alt == from_req(WithExpires(inbound, e)) IN
              /\ alt.ok
              /\ alt.info = info
              /\ get_signature(Shh, alt.to_sign) = get_signature(Shh, to_sign)

C10_StaleDispatched ==
    /\ pc = "done"
    /\ Len(sent) = 1
    /\ reason = "UpstreamResponse"
    /\ Stale

\* ------------------------------------------- canonicalizer harness

GatewayIdle ==
    /\ inbound = NoRequest
    /\ req = NoRequest
    /\ to_sign = NoSignRequest
    /\ info = NoInfo
    /\ secret = None
    /\ actual_signature = None
    /\ resp = None
    /\ reason = "none"
    /\ sent = <<>>
    /\ upstream = None
    /\ now = 0
    /\ orig = None

\* Paths are "/" and up to MaxPathLen more bytes of PathAlphabet.
MaxPathLen == 4

\* '%', ':', '/', '3', 'A', 'a'
PathAlphabet == {37, 58, 47, 51, 65, 97}

\* /%C3%A9  /%E2%82%AC  /%F0%9F%98%80  (characters of 2, 3 and 4 bytes),
\* /%E2%82:  /%ED%A0%80  /%F4%90%80%80  (no characters)
LongPaths ==
    {<<47, 37, 67, 51, 37, 65, 57>>,
     <<47, 37, 69, 50, 37, 56, 50, 37, 65, 67>>,
     <<47, 37, 70, 48, 37, 57, 70, 37, 57, 56, 37, 56, 48>>,
     <<47, 37, 69, 50, 37, 56, 50, 58>>,
     <<47, 37, 69, 68, 37, 65, 48, 37, 56, 48>>,
     <<47, 37, 70, 52, 37, 57, 48, 37, 56, 48, 37, 56, 48>>}

Paths ==
    {<<47>> \o t : t \in UNION {[1..n -> PathAlphabet] : n \in 0..MaxPathLen}} \cup LongPaths

UrlOfPath(path) == MkUrl(Some(<<104>>), None, path, <<>>, TRUE)

InitUri ==
    /\ pc = "uri"
    /\ GatewayIdle
    /\ url \in {UrlOfPath(path) : path \in Paths}
    /\ url0 = url
    /\ canon0 = None
    /\ canon = None

\* The positions of path that hold a byte of FRAGMENT standing for itself,
\* not the '%' of an escape.
RECURSIVE RawReserved(_, _)
RawReserved(path, k) ==
    IF k > Len(path) THEN {}
    ELSE IF path[k] = 37 /\ k + 2 <= Len(path)
              /\ IsHexDigit(path[k + 1]) /\ IsHexDigit(path[k + 2])
         THEN RawReserved(path, k + 3)
    ELSE (IF path[k] \in FRAGMENT THEN {k} ELSE {}) \cup RawReserved(path, k + 1)

\* canonical_uri_string(&url)
CanonicalizeUri ==
    /\ pc = "uri"
    /\ canon = None
    /\ canon' = Some(canonical_uri_string(url))
    /\ canon0' = IF IsSome(canon0) THEN canon0 ELSE canon'
    /\ UNCHANGED <<gatewayVars, url, url0>>

\* The same path with one raw reserved byte written percent-encoded.
EncodeRaw ==
    /\ pc = "uri"
    /\ IsSome(canon)
    /\ \E i \in RawReserved(url.path, 1) :
          url' = [url EXCEPT !.path = SubSeq(url.path, 1, i - 1)
                                          \o PercentEncodeByte(url.path[i])
                                          \o SubSeq(url.path, i + 1, Len(url.path))]
    /\ canon' = None
    /\ UNCHANGED <<gatewayVars, url0, canon0>>

\* The canonical string taken as the path of a Url.
ReparseCanonical ==
    /\ pc = "uri"
    /\ IsSome(canon)
    /\ url.path # canon[1]
    /\ url' = [url EXCEPT !.path = canon[1]]
    /\ canon' = None
    /\ UNCHANGED <<gatewayVars, url0, canon0>>

NextUri == CanonicalizeUri \/ EncodeRaw \/ ReparseCanonical

SpecUri == InitUri /\ [][NextUri]_vars

\* C7: a path canonicalizes to the same string when a reserved byte of it
\* is written percent-encoded instead of raw, and the canonical string,
\* taken as a path, canonicalizes to itself.
C7_EncodingAgreement == IsSome(canon) => canon = canon0

C7_ReencodedAgrees ==
    /\ IsSome(canon)
    /\ url.path # url0.path
    /\ url.path # canon0[1]
    /\ RawReserved(url.path, 1) # {}

\* Queries hold up to MaxPairs pairs of QueryPairs.
MaxPairs == 3

\* a=1, a=2, b=1 and "a&b"="=/"
QueryPairs ==
    {<<<<97>>, <<49>>>>, <<<<97>>, <<50>>>>, <<<<98>>, <<49>>>>,
     <<<<97, 38, 98>>, <<61, 47>>>>}

UrlOfQuery(pairs) == MkUrl(Some(<<104>>), None, <<47>>, pairs, TRUE)

InitQuery ==
    /\ pc = "query"
    /\ GatewayIdle
    /\ url \in {UrlOfQuery(q) : q \in UNION {[1..n -> QueryPairs] : n \in 0..MaxPairs}}
    /\ url0 = url
    /\ canon0 = None
    /\ canon = None

\* canonical_query_string(&url)
CanonicalizeQuery ==
    /\ pc = "query"
    /\ canon = None
    /\ canon' = Some(canonical_query_string(url))
    /\ canon0' = IF IsSome(canon0) THEN canon0 ELSE canon'
    /\ UNCHANGED <<gatewayVars, url, url0>>

\* The same query with two neighbouring parameters in the other order.
SwapPairs ==
    /\ pc = "query"
    /\ IsSome(canon)
    /\ \E i \in 1..(Len(url.query_pairs) - 1) :
          /\ url.query_pairs[i] # url.query_pairs[i + 1]
          /\ url' = [url EXCEPT !.query_pairs =
                        [url.query_pairs EXCEPT ![i] = url.query_pairs[i + 1],
                                                ![i + 1] = url.query_pairs[i]]]
    /\ canon' = None
    /\ UNCHANGED <<gatewayVars, url0, canon0>>

NextQuery == CanonicalizeQuery \/ SwapPairs

SpecQuery == InitQuery /\ [][NextQuery]_vars

Count(str, b) == Cardinality({i \in 1..Len(str) : str[i] = b})

SignedWithUrl(u) ==
    [method |-> <<71, 69, 84>>, proxy_url |-> u, headers |-> <<>>, body |-> None,
     datetime |-> SignDate, expires |-> 0, id |-> K1]

\* C6: the canonical query string, and with it the signature, is the same
\* for every order of the same parameters; it has one k=v entry for each
\* parameter, duplicates included, and is empty for an empty query.
C6_QueryOrderInsensitive ==
    IsSome(canon) =>
        /\ canon = canon0
        /\ get_signature(Shh, SignedWithUrl(url)) = get_signature(Shh, SignedWithUrl(url0))
        /\ Count(canon[1], 61) = Len(url.query_pairs)
        /\ Count(canon[1], 38) = (IF url.query_pairs = <<>> THEN 0 ELSE Len(url.query_pairs) - 1)
        /\ url.query_pairs = <<>> => canon[1] = <<>>

C6_ReorderedDuplicateKey ==
    /\ IsSome(canon)
    /\ url.query_pairs # url0.query_pairs
    /\ \E i, j \in 1..Len(url.query_pairs) :
          i # j /\ url.query_pairs[i][1] = url.query_pairs[j][1]

====
